---- MODULE Spec2Model ----
(***************************************************************************)
(* Model of YouTubeDownloader.download_video (src/app.py): the attempt     *)
(* loop, its exception handlers, the stream selection with its fallback,   *)
(* the pattern-recovery action _fix_regex_patterns and the progress        *)
(* conversion _on_progress.  The pytube library is the upstream: what it   *)
(* returns or raises at each call is chosen nondeterministically.          *)
(***************************************************************************)
EXTENDS Integers, Sequences, FiniteSets, TLC

\* ---------------------------------------------------------------- bounds
\* max_retries is drawn from 0..MaxRetriesBound
MaxRetriesBound == 2
\* the upstream lists at most MaxStreams stream descriptors
MaxStreams == 2

\* ------------------------------------------------------- program constants
\* backoff_time = 1 (app.py:42)
InitialBackoff == 1
\* the longest URL of the title specification
MaxUrlLen == 4
\* how many download threads the GUI starts at most
MaxDownloads == 2

\* time.sleep(1) of the unknown-error branch (app.py:138)
UnknownDelay == 1
\* if retry_count > 1 (app.py:135)
UnknownRetryLimit == 1

\* ------------------------------------------------------------ error text
\* str(e) is modelled as the set of the tokens that occur in it.
Vocabulary ==
    { "HTTP Error 400", "Bad Request", "title", "Exception while accessing",
      "age", "restricted", "unavailable", "Unavailable", "Title", "page",
      "boom", "division by zero" }

\* str.lower() on one token
Lower(tok) ==
    CASE tok = "HTTP Error 400" -> "http error 400"
      [] tok = "Bad Request" -> "bad request"
      [] tok = "Exception while accessing" -> "exception while accessing"
      [] tok = "Unavailable" -> "unavailable"
      [] tok = "Title" -> "title"
      [] OTHER -> tok

\* error_str.lower()
LowerText(text) == { Lower(tok) : tok \in text }

\* marker is a substring of the token tok
Occurs(marker, tok) ==
    \/ tok = marker
    \/ << marker, tok >> \in { << "age", "page" >>, << "restrict", "restricted" >> }

\* the Python test  marker in text
Contains(text, marker) == \E tok \in text : Occurs(marker, tok)

\* the marker list of app.py:116
TransientMarkers ==
    { "HTTP Error 400", "Bad Request", "title", "Exception while accessing" }

\* the markers of app.py:130
RestrictMarkers == { "age", "restrict", "unavailable" }

\* The texts the upstream's errors carry in this model.
ErrorTexts ==
    { { "HTTP Error 400", "Bad Request" },
      { "unavailable" },
      { "Unavailable" },
      { "Bad Request", "unavailable" },
      { "page" },
      { "Title" },
      { "boom" } }

\* The exceptions the upstream (pytube) can raise.
UpstreamErrors ==
    { [type |-> "RegexMatchError", text |-> { "boom" }],
      [type |-> "HTMLParseError", text |-> { "boom" }] }
    \cup [type : { "Exception" }, text : ErrorTexts]

\* The exception of the division in _on_progress (app.py:183).
ZeroDivisionError == [type |-> "ZeroDivisionError", text |-> { "division by zero" }]

\* any(x in error_str for x in [...])  (app.py:116)
IsTransient(text) == \E m \in TransientMarkers : Contains(text, m)

\* "age" in error_str.lower() or ... (app.py:130)
IsRestricted(text) == \E m \in RestrictMarkers : Contains(LowerText(text), m)

\* a variant of Classify that tests the restriction markers first
ClassifyRestrictedFirst(e) ==
    IF e.type = "RegexMatchError" THEN "RegexMatchError"
    ELSE IF e.type = "HTMLParseError" THEN "HTMLParseError"
    ELSE IF IsRestricted(e.text) THEN "RestrictedContent"
    ELSE IF IsTransient(e.text) THEN "TransientRejection"
    ELSE "Unknown"

\* Which handler of download_video takes the exception e, and which branch
\* of the generic handler (app.py:96, 105, 111, 116, 130, 132).
Classify(e) ==
    IF e.type = "RegexMatchError" THEN "RegexMatchError"
    ELSE IF e.type = "HTMLParseError" THEN "HTMLParseError"
    ELSE IF IsTransient(e.text) THEN "TransientRejection"
    ELSE IF IsRestricted(e.text) THEN "RestrictedContent"
    ELSE "Unknown"

\* ------------------------------------------------------------- the title
\* A URL is the sequence of its characters.
URLs ==
    { << "w", "?", "v", "=", "a", "b", "&", "t" >>,
      << "w", "/", "a", "b" >> }

\* the characters the URLs of TitleURLs are made of
UrlAlphabet == { "v", "=", "&" }

RECURSIVE Strings(_)
\* the character sequences of length n over UrlAlphabet
Strings(n) ==
    IF n = 0 THEN { << >> }
    ELSE { Append(u, c) : u \in Strings(n - 1), c \in UrlAlphabet }

\* every URL of at most MaxUrlLen characters
TitleURLs == UNION { Strings(n) : n \in 0..MaxUrlLen }

\* pat occurs in s at position i
MatchAt(s, pat, i) ==
    /\ i + Len(pat) - 1 <= Len(s)
    /\ \A k \in 1..Len(pat) : s[i + k - 1] = pat[k]

\* the position of the first occurrence of pat in s, 0 when there is none
Find(s, pat) ==
    LET idx == { i \in 1..Len(s) : MatchAt(s, pat, i) }
    IN  IF idx = {} THEN 0 ELSE CHOOSE i \in idx : \A j \in idx : i <= j

\* s.split(pat)[0]
SplitFirst(s, pat) ==
    IF Find(s, pat) = 0 THEN s ELSE SubSeq(s, 1, Find(s, pat) - 1)

\* s.split(pat)[1], for s that holds pat
SplitSecond(s, pat) ==
    SplitFirst(SubSeq(s, Find(s, pat) + Len(pat), Len(s)), pat)

\* a variant of VideoId that does not cut the identifier at "&"
VideoIdUncut(u) ==
    IF Find(u, << "v", "=" >>) # 0
    THEN SplitSecond(u, << "v", "=" >>)
    ELSE << "unknown" >>

\* video_id = url.split("v=")[1].split("&")[0] if "v=" in url else "unknown"
\* (app.py:65)
VideoId(u) ==
    IF Find(u, << "v", "=" >>) # 0
    THEN SplitFirst(SplitSecond(u, << "v", "=" >>), << "&" >>)
    ELSE << "unknown" >>

\* title = f"youtube_{video_id}" (app.py:66)
FallbackTitle(u) == << "youtube_" >> \o VideoId(u)

\* the title the upstream gives when it gives one (app.py:60)
UpstreamTitle == << "T" >>

\* the local variable title before it is assigned
NoTitle == << >>

\* ------------------------------------------------------ stream selection
\* One stream descriptor: its resolution label.  Two streams of one label
\* differ by their place in the list.
Descriptors == [res : { "360p", "720p" }]

\* What yt.streams can hold, in upstream order.
StreamLists == UNION { [1..n -> Descriptors] : n \in 0..MaxStreams }

\* The quality specifiers a call is made with.
Resolutions == { "highest", "lowest", "720p" }

\* the upstream's ranking of the labels
Rank(res) ==
    CASE res = "360p" -> 360
      [] res = "720p" -> 720
      [] res = "1080p" -> 1080

\* yt.streams.get_highest_resolution() (app.py:71, 85): the index of the
\* stream of the greatest rank (the last of them), 0 for None
get_highest_resolution(ss) ==
    LET top == { i \in 1..Len(ss) :
                   \A j \in 1..Len(ss) : Rank(ss[j].res) <= Rank(ss[i].res) }
    IN  IF top = {} THEN 0 ELSE CHOOSE i \in top : \A j \in top : j <= i

\* yt.streams.get_lowest_resolution() (app.py:74)
get_lowest_resolution(ss) ==
    LET low == { i \in 1..Len(ss) :
                   \A j \in 1..Len(ss) : Rank(ss[i].res) <= Rank(ss[j].res) }
    IN  IF low = {} THEN 0 ELSE CHOOSE i \in low : \A j \in low : i <= j

\* a variant of filter_first that takes the last match: .last() for .first()
filter_last(ss, resolution) ==
    LET hit == { i \in 1..Len(ss) : ss[i].res = resolution }
    IN  IF hit = {} THEN 0 ELSE CHOOSE i \in hit : \A j \in hit : j <= i

\* yt.streams.filter(res=resolution).first() (app.py:77)
filter_first(ss, resolution) ==
    LET hit == { i \in 1..Len(ss) : ss[i].res = resolution }
    IN  IF hit = {} THEN 0 ELSE CHOOSE i \in hit : \A j \in hit : i <= j

\* the if/elif/else of app.py:70-78
SelectStream(ss, resolution) ==
    IF resolution = "highest" THEN get_highest_resolution(ss)
    ELSE IF resolution = "lowest" THEN get_lowest_resolution(ss)
    ELSE filter_first(ss, resolution)

\* a variant of IsExplicit that forgets the test for "lowest"
IsExplicitHighestOnly(resolution) == resolution # "highest"

\* resolution != "highest" and resolution != "lowest" (app.py:82)
IsExplicit(resolution) == resolution # "highest" /\ resolution # "lowest"

\* ------------------------------------------------------------- progress
\* The bytes_remaining values the transfer reports.
BytesRemainingValues == { -50, 50, 250 }

\* The values stream.filesize has when _on_progress reads it (app.py:181).
FileSizes == { 0, 200 }

\* the sink has not been called
NoValue == [num |-> 0, den |-> 0]

\* percentage = (bytes_downloaded / total_size) * 100 (app.py:182-183), for
\* total_size # 0: the quotient num / den, kept exact
Percentage(total_size, bytes_remaining) ==
    [num |-> (total_size - bytes_remaining) * 100, den |-> total_size]

\* ---------------------------------------------------------------- state
VARIABLES
    pc,            \* where download_video is: "loop", "fetch", "title",
                   \* "select", "transfer", "done"
    url,           \* argument url
    resolution,    \* argument resolution
    max_retries,   \* argument max_retries
    has_callback,  \* self.progress_callback is set
    retry_count,   \* local retry_count
    backoff_time,  \* local backoff_time
    title,         \* local title
    streams,       \* yt.streams of the current attempt
    video,         \* local video: an index of streams, 0 for None
    fallbacks,     \* fallback selections made in the current attempt
    result,        \* what the call has returned
    attempts,      \* iterations of the while loop started
    waits,         \* the durations passed to time.sleep, in order
    fix_calls,     \* invocations of _fix_regex_patterns
    patterns,      \* pytube's module-level regex patterns
    failures,      \* how many failures of each category were handled
    sink,          \* the value last passed to self.progress_callback by
                   \* the current attempt's transfer, NoValue before that
    progress_fault, \* _on_progress has raised within this call
    last_error,    \* the exception e bound by the handler that ran last,
                   \* NoError once the next iteration has begun
    other,         \* the locals of a second download_video call that runs
                   \* on another thread of the same process
    url_entry,     \* the text of self.url_entry
    download_button, \* the state option of self.download_button
    status_var,    \* self.status_var
    progress_var,  \* self.progress_var
    messagebox,    \* the modal dialog on screen, "none" when there is none
    threads,       \* where each download_thread is
    after_queue,   \* the callbacks scheduled with root.after, in order
    scheduled,     \* how often each thread has scheduled download_completed
    last_writer    \* the thread that wrote the progress variable, the
                   \* status line or the button state last

\* what one download_video call keeps for itself: arguments and locals
call_vars ==
    << pc, url, resolution, max_retries, has_callback, retry_count,
       backoff_time, title, streams, video, fallbacks, result, attempts,
       waits, fix_calls, failures, sink, progress_fault, last_error >>

\* what a download_video call reads or writes
engine_vars == << call_vars, patterns >>

\* the widgets and threads of YouTubeDownloaderGUI
gui_vars ==
    << url_entry, download_button, status_var, progress_var, messagebox,
       threads, after_queue, scheduled, last_writer >>

vars == << engine_vars, other, gui_vars >>

\* The categories of failure: the two parse handlers, the three branches of
\* the generic handler, and the selection that found no stream.
Categories ==
    { "RegexMatchError", "HTMLParseError", "TransientRejection",
      "RestrictedContent", "Unknown", "NoMatchingStream" }

\* one more failure of category cat
Count(f, cat) == [f EXCEPT ![cat] = @ + 1]

\* no exception is bound
NoError == [type |-> "none", text |-> {}]

\* the call has not returned
Pending == [kind |-> "pending", path |-> "", text |-> "", arg |-> << >>]

\* return path, f"{text}{arg}"
Returned(path, text, arg) ==
    [kind |-> "tuple", path |-> path, text |-> text, arg |-> arg]

\* the function body ends without a return statement: the call returns None
ImplicitNone == [kind |-> "None", path |-> "", text |-> "", arg |-> << >>]

\* the first element of a returned failure pair
None == "None"

\* what video.download returns (app.py:93)
FilePath == "file"

\* a variant of LoopCondition that allows one more iteration
LoopConditionOneMore(rc, mr) == rc <= mr + 1

\* while retry_count <= max_retries (app.py:44)
LoopCondition(rc, mr) == rc <= mr

\* a variant of RetriesExhausted that gives up one retry early
RetriesExhaustedEarly(rc, mr) == rc >= mr

\* if retry_count > max_retries (app.py:102, 108, 121)
RetriesExhausted(rc, mr) == rc > mr

\* a variant of UnknownExhausted that tests the retry budget of the other
\* handlers
UnknownExhaustedByBudget(rc) == rc > max_retries

\* if retry_count > 1 (app.py:135)
UnknownExhausted(rc) == rc > UnknownRetryLimit

\* a variant of NextBackoff that adds where the code multiplies
NextBackoffAdded(b) == b + 2

\* a variant of NextBackoff that halves where the code doubles
NextBackoffHalved(b) == b \div 2

\* backoff_time *= 2 (app.py:127)
NextBackoff(b) == b * 2

\* the state of a call before its first iteration (app.py:41-42)
InitLocals ==
    /\ pc = "loop"
    /\ retry_count = 0
    /\ backoff_time = InitialBackoff
    /\ title = NoTitle
    /\ streams = << >>
    /\ video = 0
    /\ fallbacks = 0
    /\ result = Pending
    /\ attempts = 0
    /\ waits = << >>
    /\ fix_calls = 0
    /\ patterns = "original"
    /\ failures = [c \in Categories |-> 0]
    /\ sink = NoValue
    /\ progress_fault = FALSE
    /\ last_error = NoError

\* a second download_video call before its first iteration (app.py:41-42)
OtherCall(mr) ==
    [pc |-> "loop", max_retries |-> mr, retry_count |-> 0,
     backoff_time |-> InitialBackoff, waits |-> << >>, result |-> "pending"]

\* there is no second call
NoOtherCall == [OtherCall(0) EXCEPT !.pc = "absent"]

\* the download threads the GUI can start
WorkerIds == 1..MaxDownloads

\* the value of self.status_var: a text and the number formatted into it
Status(text, arg) == [text |-> text, arg |-> arg]

\* YouTubeDownloaderGUI.__init__ (main.py:53-108), run by the main thread
InitGUI ==
    /\ url_entry = ""
    /\ download_button = "normal"
    /\ status_var = Status("Ready", 0)
    /\ progress_var = 0
    /\ messagebox = "none"
    /\ threads = [i \in WorkerIds |-> "none"]
    /\ after_queue = << >>
    /\ scheduled = [i \in WorkerIds |-> 0]
    /\ last_writer = "main"

Init ==
    /\ url \in URLs
    /\ resolution \in Resolutions
    /\ max_retries \in 0..MaxRetriesBound
    /\ has_callback \in BOOLEAN
    /\ InitLocals
    /\ other = NoOtherCall
    /\ InitGUI

\* a call with a progress callback and no retry, for every URL
InitTitle ==
    /\ url \in TitleURLs
    /\ resolution = "highest"
    /\ max_retries = 0
    /\ has_callback = TRUE
    /\ InitLocals
    /\ other = NoOtherCall
    /\ InitGUI

\* two calls of one retry each that run at the same time
InitTwo ==
    /\ url \in URLs
    /\ resolution = "highest"
    /\ max_retries = 1
    /\ has_callback = TRUE
    /\ InitLocals
    /\ other = OtherCall(1)
    /\ InitGUI

\* the GUI after main() has built it (main.py:203-205); no call of the
\* engine is modelled step by step
InitApp ==
    /\ url = << >>
    /\ resolution = "highest"
    /\ max_retries = 3
    /\ has_callback = TRUE
    /\ InitLocals
    /\ other = NoOtherCall
    /\ InitGUI

\* a return statement
Return(path, text, arg) ==
    /\ pc' = "done"
    /\ result' = Returned(path, text, arg)

\* the handler ends and the while loop goes on
Continue ==
    /\ pc' = "loop"
    /\ UNCHANGED result

\* _fix_regex_patterns (app.py:140-174): it patches pytube's patterns, or
\* fails inside and swallows its own exception (ok = FALSE)
FixRegexPatterns(ok) ==
    /\ patterns' = IF ok THEN "patched" ELSE patterns
    /\ fix_calls' = fix_calls + 1

\* time.sleep(d)
Sleep(d) == waits' = Append(waits, d)

\* except RegexMatchError (app.py:96-103)
OnRegexMatchError ==
    /\ \E ok \in BOOLEAN : FixRegexPatterns(ok)
    /\ retry_count' = retry_count + 1
    /\ IF RetriesExhausted(retry_count + 1, max_retries)
       THEN Return(None, "Failed to parse YouTube page. YouTube may have changed their page structure.", << >>)
       ELSE Continue
    /\ UNCHANGED << backoff_time, waits >>

\* except HTMLParseError (app.py:105-109)
OnHTMLParseError(e) ==
    /\ retry_count' = retry_count + 1
    /\ IF RetriesExhausted(retry_count + 1, max_retries)
       THEN Return(None, "Failed to parse YouTube HTML: ", e.text)
       ELSE Continue
    /\ UNCHANGED << backoff_time, waits, fix_calls, patterns >>

\* the transient branch of except Exception (app.py:116-127)
OnTransient ==
    /\ \E ok \in BOOLEAN : FixRegexPatterns(ok)
    /\ retry_count' = retry_count + 1
    /\ IF RetriesExhausted(retry_count + 1, max_retries)
       THEN /\ Return(None, "YouTube API rejected the request. Please try: ...", << >>)
            /\ UNCHANGED << backoff_time, waits >>
       ELSE /\ Sleep(backoff_time)
            /\ backoff_time' = NextBackoff(backoff_time)
            /\ Continue

\* a variant of OnUnknown that patches the patterns as well
OnUnknownWithFix(e) ==
    /\ \E ok \in BOOLEAN : FixRegexPatterns(ok)
    /\ retry_count' = retry_count + 1
    /\ IF UnknownExhausted(retry_count + 1)
       THEN /\ Return(None, "Error downloading video: ", e.text)
            /\ UNCHANGED waits
       ELSE /\ Sleep(UnknownDelay)
            /\ Continue
    /\ UNCHANGED backoff_time

\* the last branch of except Exception (app.py:132-138)
OnUnknown(e) ==
    /\ retry_count' = retry_count + 1
    /\ IF UnknownExhausted(retry_count + 1)
       THEN /\ Return(None, "Error downloading video: ", e.text)
            /\ UNCHANGED waits
       ELSE /\ Sleep(UnknownDelay)
            /\ Continue
    /\ UNCHANGED << backoff_time, fix_calls, patterns >>

\* a variant of OnRestricted that handles the error as an unknown one
OnRestrictedRetried(e) == OnUnknown(e)

\* the restricted branch of except Exception (app.py:130-131)
OnRestricted(e) ==
    /\ Return(None, "This video may be restricted or age-limited: ", e.text)
    /\ UNCHANGED << retry_count, backoff_time, waits, fix_calls, patterns >>

\* The try statement's handlers (app.py:96-138) for an exception e raised in
\* the try body.  The attempt's locals are dead once the handler has run.
Except(e) ==
    /\ failures' = Count(failures, Classify(e))
    /\ title' = NoTitle
    /\ streams' = << >>
    /\ video' = 0
    /\ fallbacks' = 0
    /\ sink' = NoValue
    /\ last_error' = e
    /\ CASE Classify(e) = "RegexMatchError" -> OnRegexMatchError
         [] Classify(e) = "HTMLParseError" -> OnHTMLParseError(e)
         [] Classify(e) = "TransientRejection" -> OnTransient
         [] Classify(e) = "RestrictedContent" -> OnRestricted(e)
         [] OTHER -> OnUnknown(e)
    /\ UNCHANGED << url, resolution, max_retries, has_callback, attempts >>

\* the test of the while loop (app.py:44); when it fails the function body
\* ends with no return statement
WhileTest ==
    /\ pc = "loop"
    /\ UNCHANGED << other, gui_vars >>
    /\ IF LoopCondition(retry_count, max_retries)
       THEN /\ pc' = "fetch"
            /\ attempts' = attempts + 1
            /\ UNCHANGED result
       ELSE /\ pc' = "done"
            /\ result' = ImplicitNone
            /\ UNCHANGED attempts
    /\ last_error' = NoError
    /\ UNCHANGED << url, resolution, max_retries, has_callback, retry_count,
                    backoff_time, title, streams, video, fallbacks, waits,
                    fix_calls, patterns, failures, sink, progress_fault >>

\* yt = YouTube(url, ...) (app.py:51-56)
NewYouTube ==
    /\ pc = "fetch"
    /\ UNCHANGED << other, gui_vars >>
    /\ \/ /\ pc' = "title"
          /\ UNCHANGED << url, resolution, max_retries, has_callback,
                          retry_count, backoff_time, title, streams, video,
                          fallbacks, result, attempts, waits, fix_calls,
                          patterns, failures, sink, progress_fault,
                          last_error >>
       \/ \E e \in UpstreamErrors : Except(e) /\ UNCHANGED progress_fault

\* the inner try of app.py:59-67: the title, or the fallback title
GetTitle ==
    /\ pc = "title"
    /\ UNCHANGED << other, gui_vars >>
    /\ \E ok \in BOOLEAN :
          title' = IF ok THEN UpstreamTitle ELSE FallbackTitle(url)
    /\ pc' = "select"
    /\ UNCHANGED << url, resolution, max_retries, has_callback, retry_count,
                    backoff_time, streams, video, fallbacks, result,
                    attempts, waits, fix_calls, patterns, failures, sink,
                    progress_fault, last_error >>

\* the stream selection and its fallback (app.py:70-89)
GetStream ==
    /\ pc = "select"
    /\ UNCHANGED << other, gui_vars >>
    /\ \/ \E e \in UpstreamErrors : Except(e) /\ UNCHANGED progress_fault
       \/ \E ss \in StreamLists :
             /\ streams' = ss
             /\ IF SelectStream(ss, resolution) # 0
                THEN /\ video' = SelectStream(ss, resolution)
                     /\ fallbacks' = 0
                     /\ pc' = "transfer"
                     /\ UNCHANGED << result, failures >>
                ELSE IF IsExplicit(resolution)
                THEN /\ video' = get_highest_resolution(ss)
                     /\ fallbacks' = fallbacks + 1
                     /\ IF get_highest_resolution(ss) # 0
                        THEN /\ pc' = "transfer"
                             /\ UNCHANGED << result, failures >>
                        ELSE /\ Return(None, "No video streams available for this video", << >>)
                             /\ failures' = Count(failures, "NoMatchingStream")
                ELSE /\ video' = 0
                     /\ fallbacks' = 0
                     /\ Return(None, "No video stream found with resolution ", << resolution >>)
                     /\ failures' = Count(failures, "NoMatchingStream")
             /\ UNCHANGED << url, resolution, max_retries, has_callback,
                             retry_count, backoff_time, title, attempts,
                             waits, fix_calls, patterns, sink,
                             progress_fault, last_error >>

\* _on_progress (app.py:176-184), called by the transfer with the stream
\* being downloaded and the bytes that remain: the division raises
\* ZeroDivisionError inside video.download when stream.filesize is 0
OnProgress ==
    /\ pc = "transfer"
    /\ UNCHANGED << other, gui_vars >>
    /\ has_callback
    /\ \E total_size \in FileSizes, bytes_remaining \in BytesRemainingValues :
          IF total_size = 0
          THEN /\ Except(ZeroDivisionError)
               /\ progress_fault' = TRUE
          ELSE /\ sink' = Percentage(total_size, bytes_remaining)
               /\ UNCHANGED << pc, url, resolution, max_retries, has_callback,
                               retry_count, backoff_time, title, streams,
                               video, fallbacks, result, attempts, waits,
                               fix_calls, patterns, failures, progress_fault,
                               last_error >>

\* file_path = video.download(self.output_path) and the return after it
\* (app.py:93-94)
Download ==
    /\ pc = "transfer"
    /\ UNCHANGED << other, gui_vars >>
    /\ \/ /\ Return(FilePath, "Download complete: ", title)
          /\ UNCHANGED << url, resolution, max_retries, has_callback,
                          retry_count, backoff_time, title, streams, video,
                          fallbacks, attempts, waits, fix_calls, patterns,
                          failures, sink, progress_fault, last_error >>
       \/ \E e \in UpstreamErrors : Except(e) /\ UNCHANGED progress_fault

\* the second call after a handler: retry_count is rc, the call has ended
\* or not, it has slept d seconds (0: no sleep), and its backoff_time is b
OtherAfter(rc, ended, d, b) ==
    [other EXCEPT !.retry_count = rc,
                  !.pc = IF ended THEN "done" ELSE "loop",
                  !.result = IF ended THEN "Failure" ELSE @,
                  !.waits = IF d = 0 THEN @ ELSE Append(@, d),
                  !.backoff_time = b]

\* _fix_regex_patterns (app.py:140-174) called by the second call: it writes
\* the same module-level patterns of pytube
OtherFixRegexPatterns ==
    \E ok \in BOOLEAN : patterns' = IF ok THEN "patched" ELSE patterns

\* the handlers (app.py:96-138) of the second call for an exception e
OtherExcept(e) ==
    LET rc == other.retry_count + 1
        b == other.backoff_time
        exhausted == RetriesExhausted(rc, other.max_retries)
    IN  CASE Classify(e) = "RegexMatchError" ->
                /\ OtherFixRegexPatterns
                /\ other' = OtherAfter(rc, exhausted, 0, b)
          [] Classify(e) = "HTMLParseError" ->
                /\ other' = OtherAfter(rc, exhausted, 0, b)
                /\ UNCHANGED patterns
          [] Classify(e) = "TransientRejection" ->
                /\ OtherFixRegexPatterns
                /\ other' = IF exhausted
                            THEN OtherAfter(rc, TRUE, 0, b)
                            ELSE OtherAfter(rc, FALSE, b, NextBackoff(b))
          [] Classify(e) = "RestrictedContent" ->
                /\ other' = OtherAfter(other.retry_count, TRUE, 0, b)
                /\ UNCHANGED patterns
          [] OTHER ->
                /\ other' = IF UnknownExhausted(rc)
                            THEN OtherAfter(rc, TRUE, 0, b)
                            ELSE OtherAfter(rc, FALSE, UnknownDelay, b)
                /\ UNCHANGED patterns

\* one iteration of the while loop (app.py:44-138) of the second call: the
\* loop ends, or the attempt succeeds, finds no stream, or raises
OtherIteration ==
    /\ other.pc = "loop"
    /\ IF LoopCondition(other.retry_count, other.max_retries)
       THEN \/ /\ other' = [other EXCEPT !.pc = "done", !.result = "Success"]
               /\ UNCHANGED patterns
            \/ /\ other' = OtherAfter(other.retry_count, TRUE, 0, other.backoff_time)
               /\ UNCHANGED patterns
            \/ \E e \in UpstreamErrors : OtherExcept(e)
       ELSE /\ other' = [other EXCEPT !.pc = "done", !.result = "None"]
            /\ UNCHANGED patterns
    /\ UNCHANGED << call_vars, gui_vars >>

Next ==
    \/ WhileTest
    \/ NewYouTube
    \/ GetTitle
    \/ GetStream
    \/ OnProgress
    \/ Download

\* two calls on two threads: each step is a step of one of them
NextTwo ==
    \/ Next
    \/ OtherIteration

\* ----------------------------------------------------------------- GUI
\* what the user can have typed into the URL field
UrlEntryTexts == { "", " ", "u " }

\* str.strip() on the texts of UrlEntryTexts
Strip(text) ==
    CASE text = " " -> ""
      [] text = "u " -> "u"
      [] OTHER -> text

\* the percentages the engine passes to the progress callback
ProgressValues == { 25, 100 }

\* a variant of ButtonDuringDownload that leaves the button enabled
ButtonLeftEnabled == "normal"

\* self.download_button.config(state="disabled") (main.py:130)
ButtonDuringDownload == "disabled"

\* the thread has been started and has not scheduled download_completed
Running(i) == threads[i] \in { "started", "downloading" }

\* the user edits the URL field (main.py:64); a modal dialog blocks it
TypeUrl ==
    /\ messagebox = "none"
    /\ \E text \in UrlEntryTexts : url_entry' = text
    /\ UNCHANGED << download_button, status_var, progress_var, messagebox,
                    threads, after_queue, scheduled, last_writer >>
    /\ UNCHANGED << engine_vars, other >>

\* the user closes the dialog of messagebox.showerror or showinfo
\* (main.py:126, 170, 173)
Dismiss ==
    /\ messagebox # "none"
    /\ messagebox' = "none"
    /\ UNCHANGED << url_entry, download_button, status_var, progress_var,
                    threads, after_queue, scheduled, last_writer >>
    /\ UNCHANGED << engine_vars, other >>

\* start_download (main.py:122-135), the command of the Download button
\* (main.py:94): Tk runs it on the main thread, and only while the button is
\* enabled and no modal dialog is open
StartDownload ==
    /\ download_button = "normal"
    /\ messagebox = "none"
    /\ IF Strip(url_entry) = ""
       THEN /\ messagebox' = "Please enter a YouTube URL"
            /\ UNCHANGED << download_button, status_var, progress_var,
                            threads, last_writer >>
       ELSE /\ download_button' = ButtonDuringDownload
            /\ status_var' = Status("Initializing download...", 0)
            /\ progress_var' = 0
            /\ last_writer' = "main"
            /\ \E i \in WorkerIds :
                  /\ threads[i] = "none"
                  /\ \A j \in 1..(i - 1) : threads[j] # "none"
                  /\ threads' = [threads EXCEPT ![i] = "started"]
            /\ UNCHANGED messagebox
    /\ UNCHANGED << url_entry, after_queue, scheduled >>
    /\ UNCHANGED << engine_vars, other >>

\* self.root.after(0, self.download_completed, result, message), called by
\* thread i (main.py:158, 162)
ScheduleCompleted(i, res, message) ==
    /\ after_queue' = Append(after_queue, [result |-> res, message |-> message])
    /\ scheduled' = [scheduled EXCEPT ![i] = @ + 1]
    /\ threads' = [threads EXCEPT ![i] = "finished"]

\* download_thread up to the call of download_video (main.py:139-152), run
\* by thread i: it sets the status line itself; the constructor of the
\* downloader may raise, which the handler of main.py:160-162 reports
DownloadThreadBegin(i) ==
    /\ threads[i] = "started"
    /\ last_writer' = "worker"
    /\ \/ /\ status_var' = Status("Fetching video information...", 0)
          /\ threads' = [threads EXCEPT ![i] = "downloading"]
          /\ UNCHANGED << after_queue, scheduled >>
       \/ /\ status_var' = Status("Connecting to YouTube...", 0)
          /\ ScheduleCompleted(i, None, "Error: ")
    /\ UNCHANGED << url_entry, download_button, progress_var, messagebox >>
    /\ UNCHANGED << engine_vars, other >>

\* gui_progress_callback (main.py:116-120), called by _on_progress within
\* download_video, that is by thread i
GuiProgressCallback(i) ==
    /\ threads[i] = "downloading"
    /\ \E percentage \in ProgressValues :
          /\ progress_var' = percentage
          /\ status_var' = Status("Downloading: ", percentage)
    /\ last_writer' = "worker"
    /\ UNCHANGED << url_entry, download_button, messagebox, threads,
                    after_queue, scheduled >>
    /\ UNCHANGED << engine_vars, other >>

\* download_video returns to download_thread, which schedules
\* download_completed (main.py:155-158)
DownloadThreadEnd(i) ==
    /\ threads[i] = "downloading"
    /\ \/ ScheduleCompleted(i, FilePath, "Download complete: ")
       \/ ScheduleCompleted(i, None, "Failure")
    /\ UNCHANGED << url_entry, download_button, status_var, progress_var,
                    messagebox, last_writer >>
    /\ UNCHANGED << engine_vars, other >>

\* download_completed (main.py:164-173), run by the main loop for the
\* callback at the head of the queue
DownloadCompleted ==
    /\ after_queue # << >>
    /\ after_queue' = Tail(after_queue)
    /\ download_button' = "normal"
    /\ last_writer' = "main"
    /\ IF Head(after_queue).result # None
       THEN /\ status_var' = Status("Download complete!", 0)
            /\ messagebox' = "Success"
       ELSE /\ status_var' = Status("Download failed!", 0)
            /\ messagebox' = "Error"
    /\ UNCHANGED << url_entry, progress_var, threads, scheduled >>
    /\ UNCHANGED << engine_vars, other >>

NextApp ==
    \/ TypeUrl
    \/ Dismiss
    \/ StartDownload
    \/ \E i \in WorkerIds : DownloadThreadBegin(i)
    \/ \E i \in WorkerIds : GuiProgressCallback(i)
    \/ \E i \in WorkerIds : DownloadThreadEnd(i)
    \/ DownloadCompleted

Spec == Init /\ [][Next]_vars

\* the GUI: main thread and download threads
SpecApp == InitApp /\ [][NextApp]_vars

\* the same call, for every URL of TitleURLs
SpecTitle == InitTitle /\ [][Next]_vars

\* two concurrent calls
SpecTwo == InitTwo /\ [][NextTwo]_vars

\* ------------------------------------------------------------ properties
RECURSIVE Pow2(_)
\* 2 to the power n
Pow2(n) == IF n = 0 THEN 1 ELSE 2 * Pow2(n - 1)

\* the call has returned a failure pair (None, message)
Failed == pc = "done" /\ result.kind = "tuple" /\ result.path = None

\* the call has returned a success pair (path, message)
Succeeded == pc = "done" /\ result.kind = "tuple" /\ result.path = FilePath

\* every failure handled so far is of a category in cats
OnlyFailures(cats) == \A c \in Categories \ cats : failures[c] = 0

\* the number of failures handled so far
NumFailures ==
    failures["RegexMatchError"] + failures["HTMLParseError"]
    + failures["TransientRejection"] + failures["RestrictedContent"]
    + failures["Unknown"] + failures["NoMatchingStream"]

\* the current attempt has made its stream selection
Selected ==
    \/ pc = "transfer"
    \/ Succeeded
    \/ Failed /\ failures["NoMatchingStream"] > 0

\* C1: every call that ends has returned exactly one Outcome, a pair
\* (path-or-none, message); the attempt loop never ends without a return.
C1_ExactlyOneOutcome == pc = "done" => result.kind = "tuple"

\* C2: while every failure is a TransientRejection, the waits slept are
\* 1, 2, 4, ... in that order, one per failed attempt that is retried; the
\* (max_retries + 1)-th failure ends the call in Failed after exactly
\* max_retries + 1 attempts and max_retries waits, with no wait after it, and
\* no earlier failure does.
C2_TransientBackoff ==
    OnlyFailures({ "TransientRejection" }) =>
        /\ waits = [i \in 1..Len(waits) |-> Pow2(i - 1)]
        /\ failures["TransientRejection"] <= max_retries + 1
        /\ IF failures["TransientRejection"] = max_retries + 1
           THEN /\ Failed
                /\ result.text = "YouTube API rejected the request. Please try: ..."
                /\ attempts = max_retries + 1
                /\ Len(waits) = max_retries
           ELSE /\ ~Failed
                /\ Len(waits) = failures["TransientRejection"]

\* C2 happens: a call with max_retries = 2 ended in Failed after three
\* transient failures and the waits 1, 2.
C2_Witness ==
    /\ Failed
    /\ max_retries = 2
    /\ failures["TransientRejection"] = 3
    /\ OnlyFailures({ "TransientRejection" })
    /\ waits = << 1, 2 >>

\* C3: when every attempt fails with a ParseFailure, the call that has ended
\* made exactly max_retries pattern-recovery invocations and exactly
\* max_retries waits of 1, 2, ..., 2^(max_retries - 1), and returned the
\* parse-related Failure.
C3_ParseFailureBackoff ==
    ( /\ pc = "done"
      /\ OnlyFailures({ "RegexMatchError", "HTMLParseError" })
      /\ NumFailures = max_retries + 1 ) =>
        /\ Failed
        /\ result.text \in
              { "Failed to parse YouTube page. YouTube may have changed their page structure.",
                "Failed to parse YouTube HTML: " }
        /\ fix_calls = max_retries
        /\ waits = [i \in 1..max_retries |-> Pow2(i - 1)]

\* C4: a step that handles a RestrictedContent failure, or a selection that
\* finds no stream (after the fallback where there is one), returns Failure
\* in that same step with no wait, no change of retry_count or backoff_time;
\* and no step follows a return, so no further attempt is made.
C4_TerminalNoWait ==
    [][ /\ ( \/ failures'["RestrictedContent"] > failures["RestrictedContent"]
             \/ failures'["NoMatchingStream"] > failures["NoMatchingStream"] ) =>
            /\ pc' = "done"
            /\ result'.kind = "tuple"
            /\ result'.path = None
            /\ waits' = waits
            /\ retry_count' = retry_count
            /\ backoff_time' = backoff_time
            /\ attempts' = attempts
        /\ pc = "done" => FALSE ]_vars

\* C4 happens: a restricted error at the third attempt ended the call.
C4_Witness ==
    /\ Failed
    /\ failures["RestrictedContent"] = 1
    /\ result.text = "This video may be restricted or age-limited: "
    /\ attempts = 3
    /\ retry_count = 2

\* C5: the fallback selection is made at most once per attempt, only for an
\* explicit label that no stream carries; it then decides the attempt: the
\* highest stream is taken, or the call fails when there is none.  A
\* "highest" or "lowest" selection that finds no stream fails at once with no
\* fallback.
C5_FallbackOnce ==
    /\ fallbacks \in { 0, 1 }
    /\ fallbacks = 1 =>
          /\ resolution \notin { "highest", "lowest" }
          /\ \A i \in DOMAIN streams : streams[i].res # resolution
    /\ Selected =>
          /\ ( /\ resolution \notin { "highest", "lowest" }
               /\ \A i \in DOMAIN streams : streams[i].res # resolution ) =>
                 /\ fallbacks = 1
                 /\ streams = << >> =>
                       /\ Failed
                       /\ video = 0
                       /\ result.text = "No video streams available for this video"
                 /\ streams # << >> =>
                       /\ ~Failed
                       /\ video \in DOMAIN streams
                       /\ \A j \in DOMAIN streams :
                             Rank(streams[j].res) <= Rank(streams[video].res)
          /\ ( resolution \in { "highest", "lowest" } /\ streams = << >> ) =>
                 /\ fallbacks = 0
                 /\ Failed
                 /\ video = 0
                 /\ result.text = "No video stream found with resolution "

\* C5 happens: an explicit label was absent, the fallback was made and found
\* no stream either.
C5_Witness ==
    /\ Failed
    /\ resolution = "720p"
    /\ fallbacks = 1
    /\ video = 0
    /\ result.text = "No video streams available for this video"

\* C6: when the requested explicit label is present, the stream taken is the
\* first in upstream order that carries it ("highest" and "lowest" take a
\* stream of extremal rank) and no fallback is made; a call that ends with no
\* failure handled returns Success from its first attempt with no wait.
C6_FirstMatch ==
    /\ ( /\ Selected
         /\ resolution \notin { "highest", "lowest" }
         /\ \E i \in DOMAIN streams : streams[i].res = resolution ) =>
           /\ video \in DOMAIN streams
           /\ streams[video].res = resolution
           /\ \A j \in 1..(video - 1) : streams[j].res # resolution
           /\ fallbacks = 0
    /\ ( Selected /\ resolution = "highest" /\ streams # << >> ) =>
           /\ video \in DOMAIN streams
           /\ \A j \in DOMAIN streams :
                 Rank(streams[j].res) <= Rank(streams[video].res)
    /\ ( Selected /\ resolution = "lowest" /\ streams # << >> ) =>
           /\ video \in DOMAIN streams
           /\ \A j \in DOMAIN streams :
                 Rank(streams[video].res) <= Rank(streams[j].res)
    /\ ( pc = "done" /\ NumFailures = 0 ) =>
           /\ Succeeded
           /\ result.text = "Download complete: "
           /\ result.arg = title
           /\ attempts = 1
           /\ retry_count = 0
           /\ waits = << >>

\* C6 happens: two streams carry the requested label and the first of them
\* was downloaded at the first attempt.
C6_Witness ==
    /\ Succeeded
    /\ resolution = "720p"
    /\ Len(streams) = 2
    /\ streams[1].res = "720p"
    /\ streams[2].res = "720p"
    /\ video = 1
    /\ attempts = 1

\* C7: a progress signal with a total size of 0 is a no-op: it raises no
\* division fault in any call.
C7_ZeroSizeNoFault == progress_fault = FALSE

\* C8: every value passed to the sink lies in [0, 100].
C8_Clamped ==
    sink # NoValue => ( 0 <= sink.num /\ sink.num <= 100 * sink.den )

\* C9: every failure handled is absorbed and leads to another attempt (the
\* loop goes on with retry_count within max_retries) or to a returned
\* Failure.
C9_Absorbed ==
    [][ NumFailures' > NumFailures =>
          \/ pc' = "done" /\ result'.kind = "tuple" /\ result'.path = None
          \/ pc' = "loop" /\ retry_count' <= max_retries' ]_vars

\* C10: a step that handles an Unknown failure leaves backoff_time alone;
\* when retry_count was 0 it sleeps the fixed 1 and goes on, and when
\* retry_count was 1 or more it returns Failure with no wait, whatever
\* max_retries is.  So at most one Unknown failure of a call is followed by
\* a wait, and a second one ends the call.
C10_UnknownOnce ==
    [][ failures'["Unknown"] > failures["Unknown"] =>
          /\ backoff_time' = backoff_time
          /\ retry_count' = retry_count + 1
          /\ IF retry_count = 0
             THEN /\ waits' = Append(waits, 1)
                  /\ pc' = "loop"
                  /\ result' = result
             ELSE /\ waits' = waits
                  /\ pc' = "done"
                  /\ result'.kind = "tuple"
                  /\ result'.path = None
                  /\ result'.text = "Error downloading video: "
          /\ failures'["Unknown"] <= 2
          /\ failures'["Unknown"] = 2 => pc' = "done" ]_vars

\* C10 happens: after one transient retry an unknown error ended the call
\* although a retry was left.
C10_Witness ==
    /\ Failed
    /\ max_retries = 2
    /\ failures["TransientRejection"] = 1
    /\ failures["Unknown"] = 1
    /\ retry_count = 2
    /\ waits = << 1 >>
    /\ result.text = "Error downloading video: "

\* C11: in every state retry_count <= max_retries + 1; a failed attempt that
\* does not end the call raises retry_count by exactly 1, and nothing else
\* changes it; at most max_retries + 1 attempts are started; and the call
\* never stops short of its end: a call that has not ended can take a step,
\* and each step of the loop test or of a handler uses up an attempt or a
\* retry of that bounded budget.
C11_RetryBudget ==
    /\ [](/\ retry_count <= max_retries + 1
          /\ attempts <= max_retries + 1
          /\ retry_count <= attempts
          /\ pc # "done" => ENABLED Next)
    /\ [][ /\ NumFailures' > NumFailures /\ pc' # "done" =>
                retry_count' = retry_count + 1
           /\ retry_count' # retry_count =>
                NumFailures' > NumFailures /\ retry_count' = retry_count + 1
           /\ pc = "loop" /\ pc' # "done" => attempts' = attempts + 1
           /\ pc # "loop" => attempts' = attempts
           /\ pc' = "loop" => retry_count' = retry_count + 1 ]_vars

\* C11 happens: the whole budget was used, three attempts with max_retries 2,
\* and the call has ended.
C11_Witness ==
    /\ Failed
    /\ max_retries = 2
    /\ attempts = 3
    /\ retry_count = 3
    /\ NumFailures = 3

\* C12: a call starts with retry_count 0 and backoff_time 1; backoff_time
\* changes only by doubling; and the durations slept, the exponential waits
\* and the fixed wait of the unknown branch together, never decrease.
C12_WaitsAscend ==
    /\ [](/\ attempts = 0 => retry_count = 0 /\ backoff_time = 1
          /\ \A i, j \in 1..Len(waits) : i <= j => waits[i] <= waits[j])
    /\ [][ /\ backoff_time' \in { backoff_time, 2 * backoff_time }
           /\ \/ waits' = waits
              \/ \E d \in { 1, backoff_time } : waits' = Append(waits, d) ]_vars

\* C12 happens: the fixed wait of an unknown error was followed by the first
\* exponential wait, and the backoff has doubled.
C12_Witness ==
    /\ waits = << 1, 1 >>
    /\ failures["Unknown"] = 1
    /\ failures["TransientRejection"] = 1
    /\ backoff_time = 2

\* a failure of category cat is handled in this step
Handles(cat) == failures'[cat] > failures[cat]

\* C13: every parse failure, of the RegexMatchError handler and of the
\* HTMLParseError handler alike, that is followed by a retry invokes
\* _fix_regex_patterns exactly once before that retry.
C13_RecoveryBeforeRetry ==
    [][ (Handles("RegexMatchError") \/ Handles("HTMLParseError")) /\ pc' = "loop"
          => fix_calls' = fix_calls + 1 ]_vars

C18_TransientFirst ==
    [][ NumFailures' > NumFailures /\ last_error'.type = "Exception" =>
          LET text == last_error'.text
              transient ==
                  \E m \in { "HTTP Error 400", "Bad Request", "title",
                              "Exception while accessing" } : Contains(text, m)
              restricted ==
                  \E m \in { "age", "restrict", "unavailable" } :
                      Contains(LowerText(text), m)
          IN  IF transient
              THEN /\ Handles("TransientRejection")
                   /\ fix_calls' = fix_calls + 1
                   /\ retry_count' = retry_count + 1
                   /\ IF retry_count + 1 > max_retries
                      THEN /\ Failed'
                           /\ result'.text = "YouTube API rejected the request. Please try: ..."
                           /\ waits' = waits
                      ELSE /\ pc' = "loop"
                           /\ waits' = Append(waits, backoff_time)
                           /\ backoff_time' = 2 * backoff_time
              ELSE IF restricted
              THEN /\ Handles("RestrictedContent")
                   /\ Failed'
                   /\ result'.text = "This video may be restricted or age-limited: "
                   /\ UNCHANGED << retry_count, waits, fix_calls >>
              ELSE Handles("Unknown") ]_vars

\* C18 happens: an error whose text holds a transient marker and a
\* restriction marker was retried after a wait, at a retry_count and a
\* backoff_time that are not the initial ones.
C18_Witness ==
    /\ pc = "loop"
    /\ last_error = [type |-> "Exception", text |-> { "Bad Request", "unavailable" }]
    /\ retry_count = 2
    /\ backoff_time = 4
    /\ waits = << 1, 2 >>

\* C19: a call that has ended after k <= max_retries failures, each a
\* transient rejection or a parse failure, has returned the success pair
\* (path, "Download complete: <title>") from attempt k + 1, having slept once
\* per retried transient rejection; and nothing follows the return: no
\* attempt, no wait.
C19_SuccessAfterRetries ==
    /\ [](pc = "done"
            /\ OnlyFailures({ "TransientRejection", "RegexMatchError", "HTMLParseError" })
            /\ NumFailures <= max_retries
          => /\ Succeeded
             /\ result.text = "Download complete: "
             /\ result.arg = title
             /\ title # NoTitle
             /\ attempts = NumFailures + 1
             /\ retry_count = NumFailures
             /\ Len(waits) = failures["TransientRejection"])
    /\ [][ ~Succeeded ]_vars

\* C19 happens: a transient rejection and a parse failure, then a success at
\* the third attempt.
C19_Witness ==
    /\ Succeeded
    /\ max_retries = 2
    /\ failures["TransientRejection"] = 1
    /\ failures["RegexMatchError"] = 1
    /\ attempts = 3
    /\ waits = << 1 >>

\* id is what follows the first "v=" of u, up to the first "&" or the next
\* "v=" or the end of u; "unknown" when u holds no "v="
IsIdentifierOf(id, u) ==
    LET at == { i \in 1..Len(u) : MatchAt(u, << "v", "=" >>, i) }
    IN  IF at = {}
        THEN id = << "unknown" >>
        ELSE \E i \in at :
                /\ \A j \in at : i <= j
                /\ LET rest == SubSeq(u, i + 2, Len(u))
                   IN  /\ Len(id) <= Len(rest)
                       /\ id = SubSeq(rest, 1, Len(id))
                       /\ \A k \in 1..Len(id) :
                             /\ rest[k] # "&"
                             /\ ~MatchAt(rest, << "v", "=" >>, k)
                       /\ \/ Len(id) = Len(rest)
                          \/ rest[Len(id) + 1] = "&"
                          \/ MatchAt(rest, << "v", "=" >>, Len(id) + 1)

\* C15: the step that obtains the title always goes on to the stream
\* selection of the same attempt: it counts no failure, no retry and no wait
\* and returns nothing; the title it leaves is the upstream's or the constant
\* tag "youtube_" followed by the identifier of the URL, "unknown" for a URL
\* without "v=", whatever the URL is.
C15_TitleFallback ==
    [][ pc = "title" =>
          /\ pc' = "select"
          /\ UNCHANGED << retry_count, backoff_time, waits, failures, result,
                          attempts, fix_calls, last_error >>
          /\ \/ title' = UpstreamTitle
             \/ /\ Head(title') = "youtube_"
                /\ IsIdentifierOf(Tail(title'), url) ]_vars

\* C15 happens: the fallback title of a URL whose identifier ends at "&" is
\* in use at the stream selection.
C15_Witness ==
    /\ pc = "select"
    /\ url = << "v", "=", "v", "&" >>
    /\ title = << "youtube_", "v" >>
    /\ NumFailures = 0

\* C17: two concurrent calls share no mutable state: a step of one call
\* leaves unchanged everything the other call reads or writes.
C17_NoSharedState ==
    [][ /\ other' # other => UNCHANGED engine_vars
        /\ call_vars' # call_vars => other' = other ]_vars

\* C16: every write to the progress variable, the status line or the button
\* state is made by the main thread, which owns the UI.
C16_MainThreadWrites == last_writer = "main"

\* a download is in flight: a thread runs, or its completion is still to be
\* handled
InFlight == (\E i \in WorkerIds : Running(i)) \/ after_queue # << >>

\* C20: the Download button is disabled exactly while a download is in
\* flight; start_download with a URL disables it and starts one thread, with
\* an empty URL it starts none and leaves the button enabled; a thread that
\* has ended, normally or by an exception, has scheduled download_completed
\* exactly once, and only download_completed enables the button again; at
\* most one download thread runs at any time.
C20_ButtonTracksDownload ==
    /\ [](/\ download_button = "disabled" <=> InFlight
          /\ Cardinality({ i \in WorkerIds : Running(i) }) <= 1
          /\ Len(after_queue) <= 1
          /\ \A i \in WorkerIds :
                scheduled[i] = IF threads[i] = "finished" THEN 1 ELSE 0)
    /\ [][ /\ (\E i \in WorkerIds : threads[i] = "none" /\ threads'[i] # "none") =>
                /\ Strip(url_entry) # ""
                /\ download_button = "normal"
                /\ download_button' = "disabled"
                /\ Cardinality({ i \in WorkerIds : threads'[i] # threads[i] }) = 1
           /\ messagebox = "none" /\ messagebox' = "Please enter a YouTube URL" =>
                /\ Strip(url_entry) = ""
                /\ threads' = threads
                /\ download_button' = "normal"
           /\ download_button = "disabled" /\ download_button' = "normal" =>
                /\ after_queue # << >>
                /\ after_queue' = Tail(after_queue) ]_vars

\* C20 happens: the first download is over and the second is under way,
\* with the button disabled.
C20_Witness ==
    /\ threads[1] = "finished"
    /\ threads[2] = "downloading"
    /\ scheduled[1] = 1
    /\ after_queue = << >>
    /\ download_button = "disabled"
    /\ progress_var = 25

====
